---- MODULE Spec2Model ----
(***************************************************************************)
(* Model of the prompt resolver and the procedural animation evaluator of  *)
(* js/animator.js (class Animator).                                         *)
(*                                                                         *)
(* Representation.  A JavaScript string is a sequence of one-character     *)
(* strings, so that toLowerCase, trim and includes are computed character  *)
(* by character; Text maps a string literal of the source to that          *)
(* sequence.  Numbers are fixed point: positions, rotations (radians) and  *)
(* scales are in thousandths, the elapsed time is in tenths of a second,   *)
(* and phases handed to Sin are in hundredths of a radian.                 *)
(***************************************************************************)
EXTENDS Integers, Sequences, FiniteSets, TLC

VARIABLES model, currentAnimation, speed, isPlaying, time, initialState,
          lastCall, trail,
          recorder, browser,
          sceneManager, objects, app

vars == <<model, currentAnimation, speed, isPlaying, time, initialState,
          lastCall, trail, recorder, browser, sceneManager, objects, app>>

\* The Recorder and the page it runs in; the App with its SceneManager and
\* the Object3D instances they hold.
recorderVars == <<recorder, browser>>
appVars == <<sceneManager, objects, app>>

\* JavaScript null, where a string is expected.
NULL == "<null>"

\* JavaScript null, where an object is expected.
NullObject == [null |-> TRUE]

(***************************************************************************)
(* Strings                                                                 *)
(***************************************************************************)

\* The keys of this.animations, in insertion order.
animations ==
  <<"rotate", "spin", "roll", "flip", "bounce", "float", "jump", "hop",
    "levitate", "pulse", "breathe", "heartbeat", "grow", "shrink", "shake",
    "wave", "swing", "sway", "wobble", "walk", "run", "dance", "march",
    "strut", "spiral", "orbit", "fly", "zigzag", "pendulum", "tornado",
    "earthquake", "crazy">>

\* The entries of this.aliases, <<phrase, animation>>, in insertion order.
aliases ==
  <<<<"rotating", "rotate">>, <<"turn", "rotate">>, <<"turning", "rotate">>,
    <<"spinning", "spin">>, <<"twirl", "spin">>, <<"bouncing", "bounce">>,
    <<"boing", "bounce">>, <<"floating", "float">>, <<"hover", "float">>,
    <<"hovering", "float">>, <<"pulsing", "pulse">>, <<"throb", "pulse">>,
    <<"waving", "wave">>, <<"shaking", "shake">>, <<"vibrate", "shake">>,
    <<"vibrating", "shake">>, <<"swinging", "swing">>,
    <<"rolling", "roll">>, <<"flipping", "flip">>, <<"wobbling", "wobble">>,
    <<"jumping", "jump">>, <<"leap", "jump">>, <<"walking", "walk">>,
    <<"stepping", "walk">>, <<"running", "run">>, <<"jog", "run">>,
    <<"jogging", "run">>, <<"sprint", "run">>, <<"dancing", "dance">>,
    <<"boogie", "dance">>, <<"groove", "dance">>,
    <<"breathing", "breathe">>, <<"flying", "fly">>, <<"soar", "fly">>,
    <<"soaring", "fly">>, <<"glide", "fly">>, <<"spiraling", "spiral">>,
    <<"corkscrew", "spiral">>, <<"orbiting", "orbit">>,
    <<"circle", "orbit">>, <<"circling", "orbit">>, <<"hopping", "hop">>,
    <<"skip", "hop">>, <<"marching", "march">>, <<"parade", "march">>,
    <<"strutting", "strut">>, <<"swaying", "sway">>, <<"rock", "sway">>,
    <<"levitating", "levitate">>, <<"rise", "levitate">>,
    <<"zig-zag", "zigzag">>, <<"snake", "zigzag">>, <<"wild", "crazy">>,
    <<"random", "crazy">>, <<"chaos", "crazy">>>>

\* Properties every object literal inherits from Object.prototype; all of
\* them are truthy when read through obj[key].
ObjectPrototype ==
  {"constructor", "__proto__", "toString", "valueOf", "hasOwnProperty"}

\* The characters of the string literals of the source and of the words
\* prompts are made of.
Text ==
  "rotate" :> <<"r", "o", "t", "a", "t", "e">> @@
  "spin" :> <<"s", "p", "i", "n">> @@
  "roll" :> <<"r", "o", "l", "l">> @@
  "flip" :> <<"f", "l", "i", "p">> @@
  "bounce" :> <<"b", "o", "u", "n", "c", "e">> @@
  "float" :> <<"f", "l", "o", "a", "t">> @@
  "jump" :> <<"j", "u", "m", "p">> @@
  "hop" :> <<"h", "o", "p">> @@
  "levitate" :> <<"l", "e", "v", "i", "t", "a", "t", "e">> @@
  "pulse" :> <<"p", "u", "l", "s", "e">> @@
  "breathe" :> <<"b", "r", "e", "a", "t", "h", "e">> @@
  "heartbeat" :> <<"h", "e", "a", "r", "t", "b", "e", "a", "t">> @@
  "grow" :> <<"g", "r", "o", "w">> @@
  "shrink" :> <<"s", "h", "r", "i", "n", "k">> @@
  "shake" :> <<"s", "h", "a", "k", "e">> @@
  "wave" :> <<"w", "a", "v", "e">> @@
  "swing" :> <<"s", "w", "i", "n", "g">> @@
  "sway" :> <<"s", "w", "a", "y">> @@
  "wobble" :> <<"w", "o", "b", "b", "l", "e">> @@
  "walk" :> <<"w", "a", "l", "k">> @@
  "run" :> <<"r", "u", "n">> @@
  "dance" :> <<"d", "a", "n", "c", "e">> @@
  "march" :> <<"m", "a", "r", "c", "h">> @@
  "strut" :> <<"s", "t", "r", "u", "t">> @@
  "spiral" :> <<"s", "p", "i", "r", "a", "l">> @@
  "orbit" :> <<"o", "r", "b", "i", "t">> @@
  "fly" :> <<"f", "l", "y">> @@
  "zigzag" :> <<"z", "i", "g", "z", "a", "g">> @@
  "pendulum" :> <<"p", "e", "n", "d", "u", "l", "u", "m">> @@
  "tornado" :> <<"t", "o", "r", "n", "a", "d", "o">> @@
  "earthquake" :> <<"e", "a", "r", "t", "h", "q", "u", "a", "k", "e">> @@
  "crazy" :> <<"c", "r", "a", "z", "y">> @@
  "rotating" :> <<"r", "o", "t", "a", "t", "i", "n", "g">> @@
  "turn" :> <<"t", "u", "r", "n">> @@
  "turning" :> <<"t", "u", "r", "n", "i", "n", "g">> @@
  "spinning" :> <<"s", "p", "i", "n", "n", "i", "n", "g">> @@
  "twirl" :> <<"t", "w", "i", "r", "l">> @@
  "bouncing" :> <<"b", "o", "u", "n", "c", "i", "n", "g">> @@
  "boing" :> <<"b", "o", "i", "n", "g">> @@
  "floating" :> <<"f", "l", "o", "a", "t", "i", "n", "g">> @@
  "hover" :> <<"h", "o", "v", "e", "r">> @@
  "hovering" :> <<"h", "o", "v", "e", "r", "i", "n", "g">> @@
  "pulsing" :> <<"p", "u", "l", "s", "i", "n", "g">> @@
  "throb" :> <<"t", "h", "r", "o", "b">> @@
  "waving" :> <<"w", "a", "v", "i", "n", "g">> @@
  "shaking" :> <<"s", "h", "a", "k", "i", "n", "g">> @@
  "vibrate" :> <<"v", "i", "b", "r", "a", "t", "e">> @@
  "vibrating" :> <<"v", "i", "b", "r", "a", "t", "i", "n", "g">> @@
  "swinging" :> <<"s", "w", "i", "n", "g", "i", "n", "g">> @@
  "rolling" :> <<"r", "o", "l", "l", "i", "n", "g">> @@
  "flipping" :> <<"f", "l", "i", "p", "p", "i", "n", "g">> @@
  "wobbling" :> <<"w", "o", "b", "b", "l", "i", "n", "g">> @@
  "jumping" :> <<"j", "u", "m", "p", "i", "n", "g">> @@
  "leap" :> <<"l", "e", "a", "p">> @@
  "walking" :> <<"w", "a", "l", "k", "i", "n", "g">> @@
  "stepping" :> <<"s", "t", "e", "p", "p", "i", "n", "g">> @@
  "running" :> <<"r", "u", "n", "n", "i", "n", "g">> @@
  "jog" :> <<"j", "o", "g">> @@
  "jogging" :> <<"j", "o", "g", "g", "i", "n", "g">> @@
  "sprint" :> <<"s", "p", "r", "i", "n", "t">> @@
  "dancing" :> <<"d", "a", "n", "c", "i", "n", "g">> @@
  "boogie" :> <<"b", "o", "o", "g", "i", "e">> @@
  "groove" :> <<"g", "r", "o", "o", "v", "e">> @@
  "breathing" :> <<"b", "r", "e", "a", "t", "h", "i", "n", "g">> @@
  "flying" :> <<"f", "l", "y", "i", "n", "g">> @@
  "soar" :> <<"s", "o", "a", "r">> @@
  "soaring" :> <<"s", "o", "a", "r", "i", "n", "g">> @@
  "glide" :> <<"g", "l", "i", "d", "e">> @@
  "spiraling" :> <<"s", "p", "i", "r", "a", "l", "i", "n", "g">> @@
  "corkscrew" :> <<"c", "o", "r", "k", "s", "c", "r", "e", "w">> @@
  "orbiting" :> <<"o", "r", "b", "i", "t", "i", "n", "g">> @@
  "circle" :> <<"c", "i", "r", "c", "l", "e">> @@
  "circling" :> <<"c", "i", "r", "c", "l", "i", "n", "g">> @@
  "hopping" :> <<"h", "o", "p", "p", "i", "n", "g">> @@
  "skip" :> <<"s", "k", "i", "p">> @@
  "marching" :> <<"m", "a", "r", "c", "h", "i", "n", "g">> @@
  "parade" :> <<"p", "a", "r", "a", "d", "e">> @@
  "strutting" :> <<"s", "t", "r", "u", "t", "t", "i", "n", "g">> @@
  "swaying" :> <<"s", "w", "a", "y", "i", "n", "g">> @@
  "rock" :> <<"r", "o", "c", "k">> @@
  "levitating" :> <<"l", "e", "v", "i", "t", "a", "t", "i", "n", "g">> @@
  "rise" :> <<"r", "i", "s", "e">> @@
  "zig-zag" :> <<"z", "i", "g", "-", "z", "a", "g">> @@
  "snake" :> <<"s", "n", "a", "k", "e">> @@
  "wild" :> <<"w", "i", "l", "d">> @@
  "random" :> <<"r", "a", "n", "d", "o", "m">> @@
  "chaos" :> <<"c", "h", "a", "o", "s">> @@
  "constructor" :> <<"c", "o", "n", "s", "t", "r", "u", "c", "t", "o", "r">> @@
  "__proto__" :> <<"_", "_", "p", "r", "o", "t", "o", "_", "_">> @@
  "toString" :> <<"t", "o", "S", "t", "r", "i", "n", "g">> @@
  "valueOf" :> <<"v", "a", "l", "u", "e", "O", "f">> @@
  "hasOwnProperty" :> <<"h", "a", "s", "O", "w", "n", "P", "r", "o", "p", "e", "r", "t", "y">> @@
  "zoop" :> <<"z", "o", "o", "p">> @@
  "please" :> <<"p", "l", "e", "a", "s", "e">> @@
  "make" :> <<"m", "a", "k", "e">> @@
  "it" :> <<"i", "t">> @@
  "now" :> <<"n", "o", "w">> @@
  "shop" :> <<"s", "h", "o", "p">> @@
  "return" :> <<"r", "e", "t", "u", "r", "n">> @@
  "rocket" :> <<"r", "o", "c", "k", "e", "t">> @@
  "and" :> <<"a", "n", "d">> @@
  "" :> << >>


UpperCase ==
  <<"A", "B", "C", "D", "E", "F", "G", "H", "I", "J", "K", "L", "M",
    "N", "O", "P", "Q", "R", "S", "T", "U", "V", "W", "X", "Y", "Z">>

LowerCase ==
  <<"a", "b", "c", "d", "e", "f", "g", "h", "i", "j", "k", "l", "m",
    "n", "o", "p", "q", "r", "s", "t", "u", "v", "w", "x", "y", "z">>

WhiteSpace == {" ", "\t"}

\* toLowerCase left out: the prompt is matched as typed.
toLowerCaseSkipped(s) == s

\* String.prototype.toLowerCase
toLowerCase(s) ==
  [i \in 1..Len(s) |->
     IF \E k \in 1..26 : UpperCase[k] = s[i]
       THEN LowerCase[CHOOSE k \in 1..26 : UpperCase[k] = s[i]]
       ELSE s[i]]

RECURSIVE trimStart(_)
trimStart(s) ==
  IF s # << >> /\ Head(s) \in WhiteSpace THEN trimStart(Tail(s)) ELSE s

RECURSIVE trimEnd(_)
trimEnd(s) ==
  IF s # << >> /\ s[Len(s)] \in WhiteSpace
    THEN trimEnd(SubSeq(s, 1, Len(s) - 1))
    ELSE s

\* String.prototype.trim
trim(s) == trimEnd(trimStart(s))

\* String.prototype.includes
includes(s, phrase) ==
  \E i \in 1..(Len(s) - Len(phrase) + 1) :
     SubSeq(s, i, i + Len(phrase) - 1) = phrase

\* The string with the given characters (a key read back as a value).
Str(chars) == CHOOSE k \in DOMAIN Text : Text[k] = chars

\* obj[key] is truthy: key is an own key or an inherited property name.
Truthy(ownKeys, key) ==
  \E k \in ownKeys \cup ObjectPrototype : Text[k] = key

AnimationKeys == {animations[i] : i \in 1..Len(animations)}

AliasKeys == {aliases[i][1] : i \in 1..Len(aliases)}

\* this.aliases[key] for an own key.
AliasValue(key) ==
  LET i == CHOOSE j \in 1..Len(aliases) : Text[aliases[j][1]] = key
  IN  aliases[i][2]

\* The alias loop without its early return: the last phrase found wins.
AliasLoopLast(lowerPrompt, i) ==
  LET found == {j \in i..Len(aliases) :
                  includes(lowerPrompt, Text[aliases[j][1]])}
  IN  IF found = {} THEN NULL
      ELSE aliases[CHOOSE j \in found : \A k \in found : k <= j][2]

\* for (const [alias, animation] of Object.entries(this.aliases))
RECURSIVE AliasLoop(_, _)
AliasLoop(lowerPrompt, i) ==
  IF i > Len(aliases) THEN NULL
  ELSE IF includes(lowerPrompt, Text[aliases[i][1]]) THEN aliases[i][2]
  ELSE AliasLoop(lowerPrompt, i + 1)

\* for (const animation of Object.keys(this.animations))
RECURSIVE AnimationLoop(_, _)
AnimationLoop(lowerPrompt, i) ==
  IF i > Len(animations) THEN NULL
  ELSE IF includes(lowerPrompt, Text[animations[i]]) THEN animations[i]
  ELSE AnimationLoop(lowerPrompt, i + 1)

\* Animator.parsePrompt
parsePrompt(prompt) ==
  LET lowerPrompt == trim(toLowerCase(prompt)) IN
  IF Truthy(AnimationKeys, lowerPrompt) THEN Str(lowerPrompt)
  ELSE IF Truthy(AliasKeys, lowerPrompt) THEN AliasValue(lowerPrompt)
  ELSE IF AliasLoop(lowerPrompt, 1) # NULL THEN AliasLoop(lowerPrompt, 1)
  ELSE AnimationLoop(lowerPrompt, 1)

(***************************************************************************)
(* Fixed-point arithmetic                                                  *)
(***************************************************************************)

Abs(a) == IF a < 0 THEN -a ELSE a

Max(a, b) == IF a > b THEN a ELSE b

\* a * b for a and b in thousandths.
Mul(a, b) == (a * b) \div 1000

\* Math.sin of a phase in hundredths of a radian, in thousandths
\* (Bhaskara's rational approximation on each half period; Sin(0) = 0).
Sin(phase) ==
  LET x == phase % 628
      h == IF x <= 314 THEN x ELSE x - 314
      p == h * (314 - h)
      v == (16000 * p) \div (5 * 314 * 314 - 4 * p)
  IN  IF x <= 314 THEN v ELSE -v

\* Math.cos, as the sine a quarter period ahead (Cos(0) = 1000).
Cos(phase) == Sin(phase + 157)

Vec(x, y, z) == [x |-> x, y |-> y, z |-> z]

\* Vector3.setScalar
setScalar(v) == Vec(v, v, v)

(***************************************************************************)
(* The animations.  t is the elapsed time in tenths of a second, m the     *)
(* model's transform before the call, init the captured initialState;      *)
(* each returns the model's transform after the call.                      *)
(***************************************************************************)

\* rotate adding to the model's present angle instead of the rest angle.
animateRotateAccumulates(t, m, init) ==
  [m EXCEPT !.rotation.y = m.rotation.y + t * 100]

animateRotate(t, m, init) ==
  [m EXCEPT !.rotation.y = init.rotation.y + t * 100]

animateSpin(t, m, init) ==
  [m EXCEPT !.rotation.y = init.rotation.y + t * 400]

animateRoll(t, m, init) ==
  [m EXCEPT !.rotation.x = init.rotation.x + t * 200]

animateFlip(t, m, init) ==
  [m EXCEPT !.rotation.x = init.rotation.x + t * 200,
            !.position.y = init.position.y + Mul(Abs(Sin(t * 20)), 300)]

animateBounce(t, m, init) ==
  [m EXCEPT !.position.y = init.position.y + Mul(Abs(Sin(t * 40)), 500)]

animateFloat(t, m, init) ==
  [m EXCEPT !.position.y = init.position.y + Mul(Sin(t * 15), 200) + 100]

animateJump(t, m, init) ==
  LET cycle   == (t * 10) % 628
      height  == Max(0, Sin(cycle * 2))
      squash  == 1000 - Mul(Abs(Sin(cycle * 2)), 150)
      stretch == 1000 + Mul(Abs(Sin(cycle * 2)), 150)
      base    == init.scale.x
  IN  [m EXCEPT !.position.y = init.position.y + height,
                !.scale = Vec(Mul(base, squash), Mul(base, stretch),
                              Mul(base, squash))]

animateHop(t, m, init) ==
  [m EXCEPT !.position.y = init.position.y + Mul(Abs(Sin(t * 50)), 300),
            !.position.x = init.position.x + Mul(Sin(t * 25), 200)]

animateLevitate(t, m, init) ==
  [m EXCEPT !.position.y = init.position.y + Mul(Sin(t * 5), 300) + 500,
            !.rotation.y = init.rotation.y + Mul(Sin(t * 30), 20)]

animatePulse(t, m, init) ==
  LET scale == 1000 + Mul(Sin(t * 40), 150)
      base  == init.scale.x
  IN  [m EXCEPT !.scale = setScalar(Mul(base, scale))]

animateBreathe(t, m, init) ==
  LET breathe == 1000 + Mul(Sin(t * 15), 80)
      base    == init.scale.x
  IN  [m EXCEPT !.scale = setScalar(Mul(base, breathe)),
                !.position.y = init.position.y + Mul(Sin(t * 15), 50)]

animateHeartbeat(t, m, init) ==
  LET beat  == Sin(t * 80)
      scale == 1000 + (IF beat > 700 THEN 150 ELSE IF beat > 300 THEN 80 ELSE 0)
      base  == init.scale.x
  IN  [m EXCEPT !.scale = setScalar(Mul(base, scale))]

animateGrow(t, m, init) ==
  LET grow == 1000 + Mul(Sin(t * 5) + 1000, 250)
      base == init.scale.x
  IN  [m EXCEPT !.scale = setScalar(Mul(base, grow))]

animateShrink(t, m, init) ==
  LET shrink == 1000 - Mul(Sin(t * 5) + 1000, 200)
      base   == init.scale.x
  IN  [m EXCEPT !.scale = setScalar(Mul(base, Max(300, shrink)))]

animateShake(t, m, init) ==
  [m EXCEPT !.position.x = init.position.x + Mul(Sin(t * 250), 50)]

animateWave(t, m, init) ==
  [m EXCEPT !.rotation.z = init.rotation.z + Mul(Sin(t * 20), 400),
            !.position.y = init.position.y + Mul(Sin(t * 20), 100)]

animateSwing(t, m, init) ==
  [m EXCEPT !.rotation.z = init.rotation.z + Mul(Sin(t * 20), 600)]

animateSway(t, m, init) ==
  [m EXCEPT !.rotation.z = init.rotation.z + Mul(Sin(t * 15), 200),
            !.position.x = init.position.x + Mul(Sin(t * 15), 100)]

animateWobble(t, m, init) ==
  [m EXCEPT !.rotation.x = init.rotation.x + Mul(Sin(t * 30), 250),
            !.rotation.z = init.rotation.z + Mul(Cos(t * 30), 250)]

animateWalk(t, m, init) ==
  LET step == Mul(Abs(Sin(t * 40)), 100)
      sway == Mul(Sin(t * 20), 100)
      bob  == Mul(Sin(t * 40), 50)
  IN  [m EXCEPT !.position.y = init.position.y + step,
                !.rotation.z = init.rotation.z + sway,
                !.position.x = init.position.x + bob]

animateRun(t, m, init) ==
  LET step   == Mul(Abs(Sin(t * 80)), 150)
      lean   == Mul(Sin(t * 40), 150)
      bounce == Mul(Abs(Sin(t * 80)), 100)
  IN  [m EXCEPT !.position.y = init.position.y + step + bounce,
                !.rotation.z = init.rotation.z + lean,
                !.rotation.x = init.rotation.x + 100]

animateDance(t, m, init) ==
  LET scale == 1000 + Mul(Sin(t * 60), 80)
      base  == init.scale.x
  IN  [m EXCEPT !.rotation.y = init.rotation.y + Mul(Sin(t * 40), 600),
                !.position.y = init.position.y + Mul(Abs(Sin(t * 60)), 400),
                !.rotation.z = init.rotation.z + Mul(Sin(t * 30), 250),
                !.scale = setScalar(Mul(base, scale))]

animateMarch(t, m, init) ==
  LET step  == Mul(Abs(Sin(t * 30)), 200)
      swing == Mul(Sin(t * 30), 100)
  IN  [m EXCEPT !.position.y = init.position.y + step,
                !.rotation.z = init.rotation.z + swing]

animateStrut(t, m, init) ==
  LET step == Mul(Abs(Sin(t * 25)), 120)
      sway == Mul(Sin(t * 25), 200)
      hip  == Mul(Sin(t * 25), 150)
  IN  [m EXCEPT !.position.y = init.position.y + step,
                !.rotation.z = init.rotation.z + sway,
                !.position.x = init.position.x + hip]

animateSpiral(t, m, init) ==
  LET radius == 300
  IN  [m EXCEPT !.position.x = init.position.x + Mul(Cos(t * 20), radius),
                !.position.z = init.position.z + Mul(Sin(t * 20), radius),
                !.position.y = init.position.y + Mul(Sin(t * 5), 300),
                !.rotation.y = init.rotation.y + t * 200]

animateOrbit(t, m, init) ==
  LET radius == 500
  IN  [m EXCEPT !.position.x = init.position.x + Mul(Cos(t * 15), radius),
                !.position.z = init.position.z + Mul(Sin(t * 15), radius),
                !.rotation.y = init.rotation.y + t * 150]

animateFly(t, m, init) ==
  LET glide == Mul(Sin(t * 8), 500) + 500
      tilt  == Mul(Sin(t * 15), 150)
      sway  == Mul(Sin(t * 20), 200)
  IN  [m EXCEPT !.position.y = init.position.y + glide,
                !.rotation.z = init.rotation.z + tilt,
                !.position.x = init.position.x + sway]

animateZigzag(t, m, init) ==
  LET zigzag  == Mul(Sin(t * 40), 400)
      forward == Mul(Sin(t * 20), 200)
  IN  [m EXCEPT !.position.x = init.position.x + zigzag,
                !.position.z = init.position.z + forward]

animatePendulum(t, m, init) ==
  LET swing == Mul(Sin(t * 20), 800)
      rise  == Mul(Abs(Cos(t * 20)), 200)
  IN  [m EXCEPT !.rotation.z = init.rotation.z + swing,
                !.position.y = init.position.y + rise]

animateTornado(t, m, init) ==
  LET radius == Mul(Sin(t * 5), 300) + 200
  IN  [m EXCEPT !.position.x = init.position.x + Mul(Cos(t * 50), radius),
                !.position.z = init.position.z + Mul(Sin(t * 50), radius),
                !.position.y = init.position.y + Mul(Sin(t * 20), 300),
                !.rotation.y = init.rotation.y + t * 800]

\* Values Math.random() returns, in thousandths: the two ends of [0, 1).
RandomValues == {0, 999}

\* The results of the Math.random() calls one evaluation of id makes, in
\* call order: three for earthquake, none for the others.
RandomResults(id) ==
  IF id = "earthquake" THEN [1..3 -> RandomValues] ELSE {<< >>}

\* earthquake that tilts the model as well as shifting it.
animateEarthquakeTilts(t, m, init, rnd) ==
  LET shakeX == Mul(rnd[1] - 500, 100)
      shakeZ == Mul(rnd[2] - 500, 100)
      shakeY == Mul(rnd[3] - 500, 50)
  IN  [m EXCEPT !.position.x = init.position.x + shakeX,
                !.position.z = init.position.z + shakeZ,
                !.position.y = init.position.y + shakeY,
                !.rotation.z = init.rotation.z + shakeX]

\* rnd holds the three Math.random() results, in call order.
animateEarthquake(t, m, init, rnd) ==
  LET shakeX == Mul(rnd[1] - 500, 100)
      shakeZ == Mul(rnd[2] - 500, 100)
      shakeY == Mul(rnd[3] - 500, 50)
  IN  [m EXCEPT !.position.x = init.position.x + shakeX,
                !.position.z = init.position.z + shakeZ,
                !.position.y = init.position.y + shakeY]

animateCrazy(t, m, init) ==
  LET scale == 1000 + Mul(Sin(t * 100), 100)
      base  == init.scale.x
  IN  [m EXCEPT !.rotation.x = init.rotation.x + Mul(Sin(t * 70), 500),
                !.rotation.y = init.rotation.y + t * 300,
                !.rotation.z = init.rotation.z + Mul(Cos(t * 50), 400),
                !.position.y = init.position.y + Mul(Abs(Sin(t * 80)), 400),
                !.position.x = init.position.x + Mul(Sin(t * 60), 300),
                !.scale = setScalar(Mul(base, scale))]

\* animFn(this.time) for animFn = this.animations[id], id an own key.
animFn(id, t, m, init, rnd) ==
  CASE id = "rotate"     -> animateRotate(t, m, init)
    [] id = "spin"       -> animateSpin(t, m, init)
    [] id = "roll"       -> animateRoll(t, m, init)
    [] id = "flip"       -> animateFlip(t, m, init)
    [] id = "bounce"     -> animateBounce(t, m, init)
    [] id = "float"      -> animateFloat(t, m, init)
    [] id = "jump"       -> animateJump(t, m, init)
    [] id = "hop"        -> animateHop(t, m, init)
    [] id = "levitate"   -> animateLevitate(t, m, init)
    [] id = "pulse"      -> animatePulse(t, m, init)
    [] id = "breathe"    -> animateBreathe(t, m, init)
    [] id = "heartbeat"  -> animateHeartbeat(t, m, init)
    [] id = "grow"       -> animateGrow(t, m, init)
    [] id = "shrink"     -> animateShrink(t, m, init)
    [] id = "shake"      -> animateShake(t, m, init)
    [] id = "wave"       -> animateWave(t, m, init)
    [] id = "swing"      -> animateSwing(t, m, init)
    [] id = "sway"       -> animateSway(t, m, init)
    [] id = "wobble"     -> animateWobble(t, m, init)
    [] id = "walk"       -> animateWalk(t, m, init)
    [] id = "run"        -> animateRun(t, m, init)
    [] id = "dance"      -> animateDance(t, m, init)
    [] id = "march"      -> animateMarch(t, m, init)
    [] id = "strut"      -> animateStrut(t, m, init)
    [] id = "spiral"     -> animateSpiral(t, m, init)
    [] id = "orbit"      -> animateOrbit(t, m, init)
    [] id = "fly"        -> animateFly(t, m, init)
    [] id = "zigzag"     -> animateZigzag(t, m, init)
    [] id = "pendulum"   -> animatePendulum(t, m, init)
    [] id = "tornado"    -> animateTornado(t, m, init)
    [] id = "earthquake" -> animateEarthquake(t, m, init, rnd)
    [] id = "crazy"      -> animateCrazy(t, m, init)

\* The components of the model's transform each animation assigns.
Writes ==
  "rotate" :> {<<"rotation", "y">>} @@
  "spin" :> {<<"rotation", "y">>} @@
  "roll" :> {<<"rotation", "x">>} @@
  "flip" :> {<<"rotation", "x">>, <<"position", "y">>} @@
  "bounce" :> {<<"position", "y">>} @@
  "float" :> {<<"position", "y">>} @@
  "jump" :>
      {<<"position", "y">>, <<"scale", "x">>, <<"scale", "y">>,
       <<"scale", "z">>} @@
  "hop" :> {<<"position", "y">>, <<"position", "x">>} @@
  "levitate" :> {<<"position", "y">>, <<"rotation", "y">>} @@
  "pulse" :> {<<"scale", "x">>, <<"scale", "y">>, <<"scale", "z">>} @@
  "breathe" :>
      {<<"scale", "x">>, <<"scale", "y">>, <<"scale", "z">>,
       <<"position", "y">>} @@
  "heartbeat" :> {<<"scale", "x">>, <<"scale", "y">>, <<"scale", "z">>} @@
  "grow" :> {<<"scale", "x">>, <<"scale", "y">>, <<"scale", "z">>} @@
  "shrink" :> {<<"scale", "x">>, <<"scale", "y">>, <<"scale", "z">>} @@
  "shake" :> {<<"position", "x">>} @@
  "wave" :> {<<"rotation", "z">>, <<"position", "y">>} @@
  "swing" :> {<<"rotation", "z">>} @@
  "sway" :> {<<"rotation", "z">>, <<"position", "x">>} @@
  "wobble" :> {<<"rotation", "x">>, <<"rotation", "z">>} @@
  "walk" :> {<<"position", "y">>, <<"rotation", "z">>, <<"position", "x">>} @@
  "run" :> {<<"position", "y">>, <<"rotation", "z">>, <<"rotation", "x">>} @@
  "dance" :>
      {<<"rotation", "y">>, <<"position", "y">>, <<"rotation", "z">>,
       <<"scale", "x">>, <<"scale", "y">>, <<"scale", "z">>} @@
  "march" :> {<<"position", "y">>, <<"rotation", "z">>} @@
  "strut" :>
      {<<"position", "y">>, <<"rotation", "z">>, <<"position", "x">>} @@
  "spiral" :>
      {<<"position", "x">>, <<"position", "z">>, <<"position", "y">>,
       <<"rotation", "y">>} @@
  "orbit" :>
      {<<"position", "x">>, <<"position", "z">>, <<"rotation", "y">>} @@
  "fly" :> {<<"position", "y">>, <<"rotation", "z">>, <<"position", "x">>} @@
  "zigzag" :> {<<"position", "x">>, <<"position", "z">>} @@
  "pendulum" :> {<<"rotation", "z">>, <<"position", "y">>} @@
  "tornado" :>
      {<<"position", "x">>, <<"position", "z">>, <<"position", "y">>,
       <<"rotation", "y">>} @@
  "earthquake" :>
      {<<"position", "x">>, <<"position", "z">>, <<"position", "y">>} @@
  "crazy" :>
      {<<"rotation", "x">>, <<"rotation", "y">>, <<"rotation", "z">>,
       <<"position", "y">>, <<"position", "x">>, <<"scale", "x">>,
       <<"scale", "y">>, <<"scale", "z">>}

(***************************************************************************)
(* Inputs                                                                  *)
(***************************************************************************)

\* Largest elapsed time the model follows, in tenths of a second.
MaxTime == 2

\* Largest frame time handed to update, in tenths of a second.
MaxDelta == 2

\* Largest speed multiplier handed to setSpeed.
MaxSpeed == 2

\* Largest number of words in a prompt.
MaxWords == 2

DeltaTimes == 0..MaxDelta

Speeds == 1..MaxSpeed

\* The transform of a model at the moment it is handed to setModel: a
\* normalised primitive, and a model with an offset, a turn and a scale
\* that differs along the axes.
Models ==
  { [position |-> Vec(0, 0, 0), rotation |-> Vec(0, 0, 0),
     scale |-> Vec(1000, 1000, 1000)],
    [position |-> Vec(100, 500, -200), rotation |-> Vec(0, 300, 0),
     scale |-> Vec(2000, 1000, 1500)] }

\* String.prototype.toUpperCase (used to write prompts in capitals).
toUpperCase(s) ==
  [i \in 1..Len(s) |->
     IF \E k \in 1..26 : LowerCase[k] = s[i]
       THEN UpperCase[CHOOSE k \in 1..26 : LowerCase[k] = s[i]]
       ELSE s[i]]

\* The words of ws with one blank between them.
RECURSIVE Join(_)
Join(ws) ==
  IF ws = << >> THEN << >>
  ELSE IF Len(ws) = 1 THEN Text[ws[1]]
  ELSE Text[ws[1]] \o <<" ">> \o Join(Tail(ws))

\* The words typed prompts are made of: canonical ids, alias phrases,
\* words that contain one, words that match nothing, and property names
\* of Object.prototype.
Words ==
  {"rotate", "spin", "dance", "earthquake", "turn", "turning", "twirl",
   "jog", "rock", "zig-zag", "shop", "return", "zoop", "please",
   "constructor", "__proto__", "toString"}

\* A prompt as typed, in capitals, or with blanks around it.
Styled(s) ==
  {s, toUpperCase(s), <<" ", "\t">> \o s \o <<" ">>,
   <<" ">> \o toUpperCase(s) \o <<"\t", " ">>}

\* Every prompt handed to parsePrompt.
Prompts ==
  UNION {Styled(Join(ws)) :
           ws \in UNION {[1..n -> Words] : n \in 0..MaxWords}}

\* The prompts handed to setAnimation.
UIPrompts ==
  { Text["float"],
    Text["pulse"],
    <<" ">> \o toUpperCase(Text["rotate"]) \o <<" ">>,
    Join(<<"please", "turn">>),
    Text["zoop"],
    Text[""],
    Text["constructor"],
    Text["__proto__"] }

(***************************************************************************)
(* The Animator                                                            *)
(***************************************************************************)

\* The value a method without a return statement returns.
undefined == "<undefined>"

Call(op, ret) == [op |-> op, ret |-> ret]

\* A call whose argument is kept: setAnimation and its prompt, update and
\* its frame time.
CallWith(op, arg, ret) == [op |-> op, arg |-> arg, ret |-> ret]

\* An Animator on its own: no Recorder and no App have been constructed.
NoRecorder == recorder = NullObject /\ browser = NullObject
NoApp == sceneManager = NullObject /\ objects = << >> /\ app = NullObject

\* A step of the Animator on its own.
Alone == UNCHANGED <<recorderVars, appVars>>

\* Animator.constructor
Init ==
  /\ NoRecorder
  /\ NoApp
  /\ model = NullObject
  /\ currentAnimation = NULL
  /\ speed = 1
  /\ isPlaying = TRUE
  /\ time = 0
  /\ initialState = NullObject
  /\ lastCall = Call("constructor", undefined)
  /\ trail = <<"constructor">>

\* The calls made since the animator was constructed or last stopped, as
\* long as they are a prefix of: [setModel,] setAnimation (returning true),
\* update(0); or the calls made since the last pause(), as long as they
\* are a prefix of: updates with a positive frame time (written once),
\* play, update with a positive frame time; or the calls made since the
\* last stop(), as long as they are a prefix of: play (written once),
\* update with a positive frame time; empty once they are none of these.
Follow(expected, op) ==
  IF trail \in expected THEN Append(trail, op) ELSE << >>

\* The trail after update(deltaTime).
UpdateTrail(deltaTime) ==
  IF deltaTime = 0
    THEN Follow({<<"stop", "setAnimation">>,
                 <<"constructor", "setModel", "setAnimation">>}, "update")
  ELSE IF trail \in {<<"pause">>, <<"pause", "update">>}
    THEN <<"pause", "update">>
  ELSE Follow({<<"pause", "update", "play">>, <<"stop", "play">>}, "update")

\* Animator.saveInitialState, as the new value of this.initialState
saveInitialState(m) ==
  IF m = NullObject THEN initialState
  ELSE [position |-> m.position, rotation |-> m.rotation, scale |-> m.scale]

\* Animator.setModel
SetModel(m) ==
  /\ model' = m
  /\ initialState' = saveInitialState(m)
  /\ lastCall' = Call("setModel", undefined)
  /\ trail' = IF m = NullObject THEN << >>
               ELSE Follow({<<"constructor">>}, "setModel")
  /\ UNCHANGED <<currentAnimation, speed, isPlaying, time>>

\* resetToInitialState without the line that copies the scale back.
resetToInitialStateKeepsScale ==
  IF model = NullObject \/ initialState = NullObject
    THEN UNCHANGED <<model, time>>
    ELSE /\ model' = [position |-> initialState.position,
                      rotation |-> initialState.rotation,
                      scale |-> model.scale]
         /\ time' = 0

\* Animator.resetToInitialState, as the new values of this.model's
\* transform and of this.time
resetToInitialState ==
  IF model = NullObject \/ initialState = NullObject
    THEN UNCHANGED <<model, time>>
    ELSE /\ model' = [position |-> initialState.position,
                      rotation |-> initialState.rotation,
                      scale |-> initialState.scale]
         /\ time' = 0

\* The names the preset buttons hand to setAnimation: the registry's keys.
Presets == {Text[id] : id \in AnimationKeys}

\* parsePrompt on each prompt handed to setAnimation, computed once.
Parsed == [s \in UIPrompts \cup Presets |-> parsePrompt(s)]

\* setAnimation that leaves the elapsed time alone when the prompt resolves
\* to the animation that is already current.
SetAnimationKeepsTimeOnSameId(animationName) ==
  LET parsed == Parsed[animationName] IN
  IF parsed # NULL /\ Truthy(AnimationKeys, Text[parsed])
    THEN /\ currentAnimation' = parsed
         /\ time' = IF parsed = currentAnimation THEN time ELSE 0
         /\ lastCall' = CallWith("setAnimation", animationName, TRUE)
         /\ trail' = Follow({<<"stop">>, <<"constructor", "setModel">>},
                            "setAnimation")
         /\ UNCHANGED <<model, speed, isPlaying, initialState>>
    ELSE /\ lastCall' = CallWith("setAnimation", animationName, FALSE)
         /\ trail' = << >>
         /\ UNCHANGED <<model, currentAnimation, speed, isPlaying, time,
                        initialState>>

\* setAnimation resetting the elapsed time before it looks at the result
\* of parsePrompt.
SetAnimationResetsFirst(animationName) ==
  LET parsed == Parsed[animationName] IN
  /\ time' = 0
  /\ IF parsed # NULL /\ Truthy(AnimationKeys, Text[parsed])
       THEN /\ currentAnimation' = parsed
            /\ lastCall' = CallWith("setAnimation", animationName, TRUE)
            /\ trail' = Follow({<<"stop">>, <<"constructor", "setModel">>},
                               "setAnimation")
            /\ UNCHANGED <<model, speed, isPlaying, initialState>>
       ELSE /\ lastCall' = CallWith("setAnimation", animationName, FALSE)
            /\ trail' = << >>
            /\ UNCHANGED <<model, currentAnimation, speed, isPlaying,
                           initialState>>

\* Animator.setAnimation
SetAnimation(animationName) ==
  LET parsed == Parsed[animationName] IN
  IF parsed # NULL /\ Truthy(AnimationKeys, Text[parsed])
    THEN /\ currentAnimation' = parsed
         /\ time' = 0
         /\ lastCall' = CallWith("setAnimation", animationName, TRUE)
         /\ trail' = Follow({<<"stop">>, <<"constructor", "setModel">>},
                            "setAnimation")
         /\ UNCHANGED <<model, speed, isPlaying, initialState>>
    ELSE /\ lastCall' = CallWith("setAnimation", animationName, FALSE)
         /\ trail' = << >>
         /\ UNCHANGED <<model, currentAnimation, speed, isPlaying, time,
                        initialState>>

\* Animator.setSpeed
SetSpeed(s) ==
  /\ speed' = s
  /\ lastCall' = Call("setSpeed", undefined)
  /\ trail' = << >>
  /\ UNCHANGED <<model, currentAnimation, isPlaying, time, initialState>>

\* Animator.play
Play ==
  /\ isPlaying' = TRUE
  /\ lastCall' = Call("play", undefined)
  /\ trail' = IF trail \in {<<"stop">>, <<"stop", "play">>}
                 THEN <<"stop", "play">>
                 ELSE Follow({<<"pause", "update">>}, "play")
  /\ UNCHANGED <<model, currentAnimation, speed, time, initialState>>

\* Animator.pause
Pause ==
  /\ isPlaying' = FALSE
  /\ lastCall' = Call("pause", undefined)
  /\ trail' = <<"pause">>
  /\ UNCHANGED <<model, currentAnimation, speed, time, initialState>>

\* stop that leaves the current animation set.
StopKeepsAnimation ==
  /\ isPlaying' = FALSE
  /\ currentAnimation' = currentAnimation
  /\ resetToInitialState
  /\ lastCall' = Call("stop", undefined)
  /\ trail' = <<"stop">>
  /\ UNCHANGED <<speed, initialState>>

\* Animator.stop
Stop ==
  /\ isPlaying' = FALSE
  /\ currentAnimation' = NULL
  /\ resetToInitialState
  /\ lastCall' = Call("stop", undefined)
  /\ trail' = <<"stop">>
  /\ UNCHANGED <<speed, initialState>>

\* update that advances the time before its guard.
UpdateAdvancesFirst(deltaTime, rnd) ==
  /\ trail' = UpdateTrail(deltaTime)
  /\ time + deltaTime * speed <= MaxTime
  /\ time' = time + deltaTime * speed
  /\ lastCall' = CallWith("update", deltaTime, undefined)
  /\ model' = IF \/ model = NullObject
                 \/ currentAnimation \notin AnimationKeys
                 \/ ~isPlaying
                THEN model
                ELSE animFn(currentAnimation, time', model, initialState, rnd)
  /\ UNCHANGED <<currentAnimation, speed, isPlaying, initialState>>

\* update that adds the frame time without the speed factor.
UpdateIgnoresSpeed(deltaTime, rnd) ==
  /\ trail' = UpdateTrail(deltaTime)
  /\ IF model = NullObject \/ currentAnimation = NULL \/ ~isPlaying
       THEN /\ lastCall' = CallWith("update", deltaTime, undefined)
            /\ UNCHANGED <<model, currentAnimation, speed, isPlaying, time,
                           initialState>>
       ELSE /\ time + deltaTime <= MaxTime
            /\ time' = time + deltaTime
            /\ model' = IF currentAnimation \in AnimationKeys
                          THEN animFn(currentAnimation, time', model,
                                      initialState, rnd)
                          ELSE model
            /\ lastCall' = CallWith("update", deltaTime, undefined)
            /\ UNCHANGED <<currentAnimation, speed, isPlaying, initialState>>

\* update on an animator whose rest pose shares the model's vectors
\* instead of holding clones: the rest pose moves with the model.
UpdateMovesRestPose(deltaTime, rnd) ==
  /\ trail' = UpdateTrail(deltaTime)
  /\ IF model = NullObject \/ currentAnimation = NULL \/ ~isPlaying
       THEN /\ lastCall' = CallWith("update", deltaTime, undefined)
            /\ UNCHANGED <<model, currentAnimation, speed, isPlaying, time,
                           initialState>>
       ELSE /\ time + deltaTime * speed <= MaxTime
            /\ time' = time + deltaTime * speed
            /\ model' = IF currentAnimation \in AnimationKeys
                          THEN animFn(currentAnimation, time', model,
                                      initialState, rnd)
                          ELSE model
            /\ initialState' = model'
            /\ lastCall' = CallWith("update", deltaTime, undefined)
            /\ UNCHANGED <<currentAnimation, speed, isPlaying>>

\* update that does not look at isPlaying.
UpdateIgnoresPause(deltaTime, rnd) ==
  /\ trail' = UpdateTrail(deltaTime)
  /\ IF model = NullObject \/ currentAnimation = NULL
       THEN /\ lastCall' = CallWith("update", deltaTime, undefined)
            /\ UNCHANGED <<model, currentAnimation, speed, isPlaying, time,
                           initialState>>
       ELSE /\ time + deltaTime * speed <= MaxTime
            /\ time' = time + deltaTime * speed
            /\ model' = IF currentAnimation \in AnimationKeys
                          THEN animFn(currentAnimation, time', model,
                                      initialState, rnd)
                          ELSE model
            /\ lastCall' = CallWith("update", deltaTime, undefined)
            /\ UNCHANGED <<currentAnimation, speed, isPlaying, initialState>>

\* Animator.update; rnd holds the results of the Math.random() calls the
\* animation makes.
Update(deltaTime, rnd) ==
  /\ trail' = UpdateTrail(deltaTime)
  /\ IF model = NullObject \/ currentAnimation = NULL \/ ~isPlaying
       THEN /\ lastCall' = CallWith("update", deltaTime, undefined)
            /\ UNCHANGED <<model, currentAnimation, speed, isPlaying, time,
                           initialState>>
       ELSE /\ time + deltaTime * speed <= MaxTime
            /\ time' = time + deltaTime * speed
            /\ IF currentAnimation \in AnimationKeys
                 THEN /\ model' = animFn(currentAnimation, time', model,
                                         initialState, rnd)
                      /\ lastCall' = CallWith("update", deltaTime, undefined)
                 ELSE \* an inherited property: Object.prototype itself is no
                      \* function, the others return without touching the model
                      /\ model' = model
                      /\ lastCall' = CallWith("update", deltaTime,
                                              IF currentAnimation = "__proto__"
                                                THEN "TypeError"
                                                ELSE undefined)
            /\ UNCHANGED <<currentAnimation, speed, isPlaying, initialState>>

Next ==
  \/ \E m \in Models \cup {NullObject} : SetModel(m) /\ Alone
  \/ \E s \in UIPrompts : SetAnimation(s) /\ Alone
  \/ \E s \in Speeds : SetSpeed(s) /\ Alone
  \/ Play /\ Alone
  \/ Pause /\ Alone
  \/ Stop /\ Alone
  \/ \E dt \in DeltaTimes, rnd \in RandomResults(currentAnimation) :
        Update(dt, rnd) /\ Alone

Spec == Init /\ [][Next]_vars

\* The model's transform is the rest pose, or there is no model.
AtRest == model = NullObject \/ model = initialState

\* A caller that starts every animation of the registry, each from the
\* rest pose: it calls setAnimation right after attaching a model or after
\* stop().
NextFromRest ==
  \/ \E m \in Models \cup {NullObject} : SetModel(m) /\ Alone
  \/ \E s \in Presets : AtRest /\ SetAnimation(s) /\ Alone
  \/ \E s \in Speeds : SetSpeed(s) /\ Alone
  \/ Play /\ Alone
  \/ Pause /\ Alone
  \/ Stop /\ Alone
  \/ \E dt \in DeltaTimes, rnd \in RandomResults(currentAnimation) :
        Update(dt, rnd) /\ Alone

SpecFromRest == Init /\ [][NextFromRest]_vars

\* A caller about to hand a prompt to parsePrompt.
InitResolver ==
  /\ NoRecorder
  /\ NoApp
  /\ model = NullObject
  /\ currentAnimation = NULL
  /\ speed = 1
  /\ isPlaying = TRUE
  /\ time = 0
  /\ initialState = NullObject
  /\ trail = <<"constructor">>
  /\ \E p \in Prompts :
       lastCall = [op |-> "parsePrompt", arg |-> p, ret |-> "<pending>"]

\* Animator.parsePrompt returns.
ParsePrompt ==
  /\ lastCall.ret = "<pending>"
  /\ lastCall' = [lastCall EXCEPT !.ret = parsePrompt(lastCall.arg)]
  /\ UNCHANGED <<model, currentAnimation, speed, isPlaying, time,
                 initialState, trail>>

NextResolver == ParsePrompt /\ Alone

SpecResolver == InitResolver /\ [][NextResolver]_vars

(***************************************************************************)
(* The Recorder (js/recorder.js) and the page it records.                  *)
(*                                                                         *)
(* recorder holds the fields of the Recorder object.  browser holds what   *)
(* the page gives it: the MIME types MediaRecorder.isTypeSupported         *)
(* accepts, whether MediaRecorder and captureStream exist, the clock (in   *)
(* seconds), the pending setTimeout and setInterval timers, the stop       *)
(* events of MediaRecorders that wait for their handler, and the log of    *)
(* the callbacks made and the files downloaded.  lastCall is the method,    *)
(* handler or callback that ran last.  A MediaRecorder is                  *)
(* numbered by the start() call that created it; a timeout carries the     *)
(* number of the recording whose start() scheduled it.                     *)
(***************************************************************************)

\* The animator's variables while only the Recorder or the App is followed.
animatorVars == <<model, currentAnimation, speed, isPlaying, time,
                  initialState, trail>>

NoAnimator ==
  /\ model = NullObject
  /\ currentAnimation = NULL
  /\ speed = 1
  /\ isPlaying = TRUE
  /\ time = 0
  /\ initialState = NullObject
  /\ trail = << >>

\* Recorder.start: the MIME types tried, in this order.
mimeTypes ==
  <<"video/webm;codecs=vp9", "video/webm;codecs=vp8", "video/webm",
    "video/mp4">>

\* The extension downloadBlob gives every file.
downloadExtension == "webm"

\* The recording length the constructor sets, in seconds.
DefaultDuration == 5

MaxNow == 3
MaxDuration == 2
MaxRecordings == 2
MaxChunks == 1

\* The lengths the duration slider hands to setDuration.
Durations == 1..MaxDuration

\* Recorder.start: the first MIME type of the list the browser supports,
\* "" when there is none.
selectedMimeType(supported) ==
  LET hits == {i \in 1..Len(mimeTypes) : mimeTypes[i] \in supported}
  IN  IF hits = {} THEN ""
      ELSE mimeTypes[CHOOSE i \in hits : \A j \in hits : i <= j]

\* Recorder.constructor, in a page of any browser.
InitRecorder ==
  /\ NoAnimator
  /\ NoApp
  /\ recorder = [mediaRecorder |-> NullObject,
                 chunks |-> 0,
                 isRecording |-> FALSE,
                 duration |-> DefaultDuration,
                 startTime |-> 0,
                 timerInterval |-> 0]
  /\ \E supported \in SUBSET {mimeTypes[i] : i \in 1..Len(mimeTypes)},
        canRecord \in BOOLEAN :
       browser = [supported |-> supported,
                  canRecord |-> canRecord,
                  now |-> 0,
                  timeouts |-> {},
                  intervals |-> {},
                  tasks |-> << >>,
                  recordings |-> 0,
                  log |-> << >>]
  /\ lastCall = Call("constructor", undefined)

\* An entry of the log: a callback made for recording rec, or the download
\* of its clip as a file with the extension downloadExtension; type is the
\* MIME type of the blob of a download.
Event(ev, rec, type) == [ev |-> ev, rec |-> rec, type |-> type]

\* Recorder.setDuration
SetDuration(seconds) ==
  /\ recorder' = [recorder EXCEPT !.duration = seconds]
  /\ lastCall' = Call("setDuration", undefined)
  /\ UNCHANGED browser

\* start without the isRecording test.
RecorderStartWhileRecording ==
  LET selected == selectedMimeType(browser.supported)
      id       == browser.recordings + 1
  IN  IF ~browser.canRecord \/ selected = ""
        THEN /\ lastCall' = Call("start", FALSE)
             /\ UNCHANGED <<recorder, browser>>
        ELSE /\ id <= MaxRecordings
             /\ browser.now + recorder.duration <= MaxNow
             /\ recorder' =
                  [recorder EXCEPT
                     !.mediaRecorder = [id |-> id, mimeType |-> selected,
                                        state |-> "recording"],
                     !.chunks = 0,
                     !.isRecording = TRUE,
                     !.startTime = browser.now,
                     !.timerInterval = id]
             /\ browser' =
                  [browser EXCEPT
                     !.recordings = id,
                     !.intervals = @ \cup {id},
                     !.timeouts = @ \cup {[due |-> browser.now
                                                    + recorder.duration,
                                           rec |-> id]},
                     !.log = Append(@, Event("onStart", id, ""))]
             /\ lastCall' = Call("start", TRUE)

\* Recorder.start
RecorderStart ==
  LET selected == selectedMimeType(browser.supported)
      id       == browser.recordings + 1
  IN  IF recorder.isRecording \/ ~browser.canRecord \/ selected = ""
        THEN /\ lastCall' = Call("start", FALSE)
             /\ UNCHANGED <<recorder, browser>>
        ELSE /\ id <= MaxRecordings
             /\ browser.now + recorder.duration <= MaxNow
             /\ recorder' =
                  [recorder EXCEPT
                     !.mediaRecorder = [id |-> id, mimeType |-> selected,
                                        state |-> "recording"],
                     !.chunks = 0,
                     !.isRecording = TRUE,
                     !.startTime = browser.now,
                     !.timerInterval = id]
             /\ browser' =
                  [browser EXCEPT
                     !.recordings = id,
                     !.intervals = @ \cup {id},
                     !.timeouts = @ \cup {[due |-> browser.now
                                                    + recorder.duration,
                                           rec |-> id]},
                     !.log = Append(@, Event("onStart", id, ""))]
             /\ lastCall' = Call("start", TRUE)

\* MediaRecorder.ondataavailable with data of a positive size.
OnDataAvailable ==
  /\ recorder.mediaRecorder # NullObject
  /\ recorder.mediaRecorder.state = "recording"
  /\ recorder.chunks < MaxChunks
  /\ recorder' = [recorder EXCEPT !.chunks = @ + 1]
  /\ lastCall' = Call("ondataavailable", undefined)
  /\ UNCHANGED browser

\* Recorder.stop, as the new values of recorder and browser.tasks and what
\* the call returns: MediaRecorder.stop() throws on a recorder that is
\* inactive already.
stop(timeouts, op, arg) ==
  IF ~recorder.isRecording \/ recorder.mediaRecorder = NullObject
    THEN /\ lastCall' = CallWith(op, arg, undefined)
         /\ browser' = [browser EXCEPT !.timeouts = timeouts]
         /\ UNCHANGED recorder
  ELSE IF recorder.mediaRecorder.state = "inactive"
    THEN /\ lastCall' = CallWith(op, arg, "InvalidStateError")
         /\ browser' = [browser EXCEPT !.timeouts = timeouts]
         /\ UNCHANGED recorder
  ELSE /\ recorder' = [recorder EXCEPT !.mediaRecorder.state = "inactive"]
       /\ browser' = [browser EXCEPT
                        !.timeouts = timeouts,
                        !.tasks = Append(@, recorder.mediaRecorder)]
       /\ lastCall' = CallWith(op, arg, undefined)

\* Recorder.stop called by the page.
RecorderStop == stop(browser.timeouts, "stop", 0)

\* The callback start() handed to setTimeout, run when it is due.
AutoStop(t) ==
  /\ t \in browser.timeouts
  /\ t.due <= browser.now
  /\ stop(browser.timeouts \ {t}, "setTimeout", t.rec)

\* onstop without the clearInterval call.
OnStopKeepsInterval ==
  /\ browser.tasks # << >>
  /\ LET mr == Head(browser.tasks) IN
       /\ recorder' = [recorder EXCEPT !.isRecording = FALSE]
       /\ browser' =
            [browser EXCEPT
               !.tasks = Tail(@),
               !.log = @ \o <<Event("download", mr.id, mr.mimeType),
                              Event("onStop", mr.id, "")>>]
  /\ lastCall' = Call("onstop", undefined)

\* MediaRecorder.onstop: the handler of the stop event.
OnStop ==
  /\ browser.tasks # << >>
  /\ LET mr == Head(browser.tasks) IN
       /\ recorder' = [recorder EXCEPT !.isRecording = FALSE]
       /\ browser' =
            [browser EXCEPT
               !.tasks = Tail(@),
               !.intervals = @ \ {recorder.timerInterval},
               !.log = @ \o <<Event("download", mr.id, mr.mimeType),
                              Event("onStop", mr.id, "")>>]
  /\ lastCall' = Call("onstop", undefined)

\* The callback startTimer() handed to setInterval.
OnProgress(i) ==
  /\ i \in browser.intervals
  /\ lastCall' = Call("onProgress", undefined)
  /\ UNCHANGED <<recorder, browser>>

\* A second passes; a timeout runs when it is due.
Tick ==
  /\ browser.now < MaxNow
  /\ \A t \in browser.timeouts : t.due > browser.now
  /\ browser' = [browser EXCEPT !.now = @ + 1]
  /\ lastCall' = Call("tick", undefined)
  /\ UNCHANGED recorder

\* A step of the Recorder and its page.
OnlyRecorder == UNCHANGED <<animatorVars, appVars>>

NextRecorder ==
  \/ \E seconds \in Durations : SetDuration(seconds) /\ OnlyRecorder
  \/ RecorderStart /\ OnlyRecorder
  \/ RecorderStop /\ OnlyRecorder
  \/ OnDataAvailable /\ OnlyRecorder
  \/ \E t \in browser.timeouts : AutoStop(t) /\ OnlyRecorder
  \/ OnStop /\ OnlyRecorder
  \/ \E i \in browser.intervals : OnProgress(i) /\ OnlyRecorder
  \/ Tick /\ OnlyRecorder

SpecRecorder == InitRecorder /\ [][NextRecorder]_vars

\* The Recorder in a browser that can record and supports every type of
\* the list.  Time passes, a timeout that is due runs, and a stop event is
\* handed to its handler: the event loop leaves none of them waiting for
\* ever.
InitRecording ==
  /\ InitRecorder
  /\ browser.canRecord
  /\ browser.supported = {mimeTypes[i] : i \in 1..Len(mimeTypes)}

SpecRecording ==
  /\ InitRecording
  /\ [][NextRecorder]_vars
  /\ WF_vars(Tick /\ OnlyRecorder)
  /\ WF_vars(\E t \in browser.timeouts : AutoStop(t) /\ OnlyRecorder)
  /\ WF_vars(OnStop /\ OnlyRecorder)

(***************************************************************************)
(* The App (js/app.js) and its SceneManager (js/scene.js).                 *)
(*                                                                         *)
(* objects is the heap of the Object3D values made so far, in the order    *)
(* they were made; a reference to the n-th of them is Ref(n) and null is   *)
(* NullObject.  An Object3D carries the box of its geometry in its own     *)
(* coordinates, its transform, whether its geometry and materials were     *)
(* disposed, and the name of the file or primitive it was made from.       *)
(* sceneManager holds the scene's model children and currentModel; app     *)
(* holds modelLoaded, the loads awaiting their loader, the number of       *)
(* requests made and the log of requests and completions.  In this part    *)
(* model is the reference the animator holds and initialState the          *)
(* transform it captured.  Lengths are in thousandths of a unit.           *)
(***************************************************************************)

Ref(n) == [ref |-> n]

Axes == {"x", "y", "z"}

\* Requests (file loads, sample clicks, removals) followed in one run.
MaxRequests == 3

\* The files offered to loadFile: the name, and the geometry box of the
\* scene the loader builds from the content.
File(name, min, max) == [name |-> name, min |-> min, max |-> max]

Files ==
  { File(<<"a", ".", "g", "l", "b">>,
         Vec(-2000, 0, -500), Vec(2000, 2000, 500)),
    File(<<"B", ".", "G", "L", "T", "F">>,
         Vec(0, 0, 0), Vec(1000, 4000, 1000)),
    File(<<"c", ".", "v", "1", ".", "o", "b", "j">>,
         Vec(-500, -500, -500), Vec(500, 500, 500)),
    File(<<"d", ".", "f", "b", "x">>,
         Vec(-1000, 0, -1000), Vec(1000, 1000, 1000)) }

\* The sample buttons' primitives and the boxes of their geometries:
\* BoxGeometry(1, 1, 1) and CylinderGeometry(0.4, 0.4, 1, 32).
SampleTypes == {"cube", "cylinder"}

\* new THREE.Mesh(geometry, material), and the root of a loaded scene
Object3D(name, min, max) ==
  [name |-> name,
   geometry |-> [min |-> min, max |-> max],
   position |-> Vec(0, 0, 0),
   rotation |-> Vec(0, 0, 0),
   scale |-> Vec(1000, 1000, 1000),
   disposed |-> FALSE]

\* SceneManager.createPrimitive, up to its call of addModel
Primitive(type) ==
  IF type = "cylinder"
    THEN Object3D(type, Vec(-400, -500, -400), Vec(400, 500, 400))
    ELSE Object3D(type, Vec(-500, -500, -500), Vec(500, 500, 500))

\* name.split('.').pop()
lastPart(name) ==
  LET dots == {i \in 1..Len(name) : name[i] = "."}
      last == IF dots = {} THEN 0
              ELSE CHOOSE i \in dots : \A j \in dots : j <= i
  IN SubSeq(name, last + 1, Len(name))

\* const ext = name.split('.').pop().toLowerCase()
extension(name) == toLowerCase(lastPart(name))

\* ['glb', 'gltf', 'obj']
supportedFormats ==
  << <<"g", "l", "b">>, <<"g", "l", "t", "f">>, <<"o", "b", "j">> >>

\* ['glb', 'gltf', 'obj'].includes(ext)
Supported(ext) == \E i \in 1..Len(supportedFormats) : supportedFormats[i] = ext

\* new THREE.Box3().setFromObject(o): the geometry box under o's position
\* and scale (the models here are not rotated and have no parent transform).
Box3(o) ==
  [min |-> [a \in Axes |-> o.position[a] + Mul(o.scale[a], o.geometry.min[a])],
   max |-> [a \in Axes |-> o.position[a] + Mul(o.scale[a], o.geometry.max[a])]]

\* Box3.getSize
getSize(box) == [a \in Axes |-> box.max[a] - box.min[a]]

\* Box3.getCenter
getCenter(box) == [a \in Axes |-> (box.min[a] + box.max[a]) \div 2]

\* SceneManager.disposeModel
disposeModel(heap, r) == [heap EXCEPT ![r.ref].disposed = TRUE]

\* SceneManager.addModel(r) on the heap and scene manager given: the new
\* heap and scene manager (it returns r itself).
addModel(heap, sm, r) ==
  LET had == sm.currentModel # NullObject
      kept == IF had THEN disposeModel(heap, sm.currentModel) ELSE heap
      scene == IF had THEN sm.scene \ {sm.currentModel} ELSE sm.scene
      m == kept[r.ref]
      box == Box3(m)
      size == getSize(box)
      center == getCenter(box)
      maxDim == Max(size.x, Max(size.y, size.z))
      scale == IF maxDim > 0 THEN (2000 * 1000) \div maxDim ELSE 1000
      centred == [a \in Axes |-> m.position[a] - Mul(center[a], scale)]
      position == [centred EXCEPT !.y = @ + Mul(size.y, scale) \div 2]
  IN [objects |-> [kept EXCEPT ![r.ref].scale = setScalar(scale),
                               ![r.ref].position = position],
      sceneManager |-> [scene |-> scene \cup {r}, currentModel |-> r]]

\* SceneManager.removeModel
removeModel(heap, sm) ==
  IF sm.currentModel # NullObject
    THEN [objects |-> disposeModel(heap, sm.currentModel),
          sceneManager |-> [scene |-> sm.scene \ {sm.currentModel},
                            currentModel |-> NullObject]]
    ELSE [objects |-> heap, sceneManager |-> sm]

\* App.onModelLoaded(r, name): addModel, animator.setModel(addedModel),
\* modelLoaded = true.
onModelLoaded(heap, sm, r) ==
  LET added == addModel(heap, sm, r)
  IN /\ objects' = added.objects
     /\ sceneManager' = added.sceneManager
     /\ model' = r
     /\ initialState' = saveInitialState(added.objects[r.ref])

AppEvent(ev, request, name) == [ev |-> ev, request |-> request, name |-> name]

InitApp ==
  /\ NoAnimator
  /\ NoRecorder
  /\ sceneManager = [scene |-> {}, currentModel |-> NullObject]
  /\ objects = << >>
  /\ app = [modelLoaded |-> FALSE, loading |-> {}, requests |-> 0,
            log |-> << >>]
  /\ lastCall = Call("constructor", undefined)

\* The format check of loadFile for each of the files, computed once.
FormatSupported == [file \in Files |-> Supported(extension(file.name))]

\* App.loadFile(file), up to the await of the loader's promise.
LoadFile(file) ==
  IF ~FormatSupported[file]
    THEN /\ lastCall' = CallWith("loadFile", file.name, "Unsupported format")
         /\ UNCHANGED <<app, sceneManager, objects, model, initialState>>
    ELSE /\ app.requests < MaxRequests
         /\ app' = [app EXCEPT
                      !.requests = @ + 1,
                      !.loading = @ \cup {[request |-> app.requests + 1,
                                           file |-> file]},
                      !.log = Append(@, AppEvent("loadFile", app.requests + 1,
                                                 file.name))]
         /\ lastCall' = CallWith("loadFile", file.name, "loading")
         /\ UNCHANGED <<sceneManager, objects, model, initialState>>

\* The loader resolves the promise of the load l: loadFile continues with
\* onModelLoaded(model, name).
Loaded(l) ==
  /\ l \in app.loading
  /\ LET heap == Append(objects, Object3D(l.file.name, l.file.min, l.file.max))
     IN onModelLoaded(heap, sceneManager, Ref(Len(heap)))
  /\ app' = [app EXCEPT
               !.modelLoaded = TRUE,
               !.loading = @ \ {l},
               !.log = Append(@, AppEvent("loaded", l.request, l.file.name))]
  /\ lastCall' = CallWith("onModelLoaded", l.file.name, undefined)

\* The loader rejects the promise of the load l, or the scene it built is
\* null: loadFile's catch block.
LoadFailed(l) ==
  /\ l \in app.loading
  /\ app' = [app EXCEPT
               !.loading = @ \ {l},
               !.log = Append(@, AppEvent("failed", l.request, l.file.name))]
  /\ lastCall' = CallWith("loadFile", l.file.name, "Failed to load model")
  /\ UNCHANGED <<sceneManager, objects, model, initialState>>

\* App.removeModel without the line that clears modelLoaded.
RemoveModelKeepsModelLoaded ==
  /\ app.requests < MaxRequests
  /\ LET removed == removeModel(objects, sceneManager)
     IN /\ objects' = removed.objects
        /\ sceneManager' = removed.sceneManager
  /\ model' = NullObject
  /\ initialState' = saveInitialState(NullObject)
  /\ app' = [app EXCEPT
               !.requests = @ + 1,
               !.log = Append(@, AppEvent("removeModel", app.requests + 1, ""))]
  /\ lastCall' = Call("removeModel", undefined)

\* App.removeModel
RemoveModel ==
  /\ app.requests < MaxRequests
  /\ LET removed == removeModel(objects, sceneManager)
     IN /\ objects' = removed.objects
        /\ sceneManager' = removed.sceneManager
  /\ model' = NullObject
  /\ initialState' = saveInitialState(NullObject)
  /\ app' = [app EXCEPT
               !.modelLoaded = FALSE,
               !.requests = @ + 1,
               !.log = Append(@, AppEvent("removeModel", app.requests + 1, ""))]
  /\ lastCall' = Call("removeModel", undefined)

\* A sample button's onclick: createPrimitive(type) (which calls addModel),
\* animator.setModel(model), onModelLoaded(model, type + '.primitive').
SampleClicked(type) ==
  /\ app.requests < MaxRequests
  /\ LET heap == Append(objects, Primitive(type))
         r == Ref(Len(heap))
         created == addModel(heap, sceneManager, r)
     IN onModelLoaded(created.objects, created.sceneManager, r)
  /\ app' = [app EXCEPT
               !.modelLoaded = TRUE,
               !.requests = @ + 1,
               !.log = Append(@, AppEvent("sample", app.requests + 1, type))]
  /\ lastCall' = CallWith("onclick", type, undefined)

OnlyApp == UNCHANGED <<currentAnimation, speed, isPlaying, time, trail,
                       recorderVars>>

NextApp ==
  \/ \E file \in Files : LoadFile(file) /\ OnlyApp
  \/ \E l \in app.loading : Loaded(l) /\ OnlyApp
  \/ \E l \in app.loading : LoadFailed(l) /\ OnlyApp
  \/ RemoveModel /\ OnlyApp
  \/ \E type \in SampleTypes : SampleClicked(type) /\ OnlyApp

SpecApp == InitApp /\ [][NextApp]_vars

(***************************************************************************)
(* Properties                                                              *)
(***************************************************************************)

Components == {"position", "rotation", "scale"} \X {"x", "y", "z"}

\* The transform a newly constructed Animator leaves on a model with
\* transform rest after setModel, setAnimation(id) and update(0): the
\* constructor sets isPlaying, so update evaluates id at time 0.
Fresh(id, rest) == animFn(id, 0, rest, rest, << >>)

\* Fresh is what the calls constructor, setModel, setAnimation, update(0)
\* produce.
FreshIsWhatTheCallsProduce ==
  ( /\ trail = <<"constructor", "setModel", "setAnimation", "update">>
    /\ currentAnimation \in AnimationKeys \ {"earthquake"} )
  => model = Fresh(currentAnimation, initialState)

\* C1: after a setAnimation call that returned true the animator is
\* playing and an animation is set, whatever the state before the call.
C1_SetAnimationEntersPlaying ==
  (lastCall.op = "setAnimation" /\ lastCall.ret = TRUE)
  => (isPlaying /\ currentAnimation # NULL)

\* C2: restart law: with a model attached, stop(); setAnimation(id);
\* update(0) leaves the transform a fresh Animator with the same rest
\* pose has after setAnimation(id); update(0) (id not earthquake).
C2_RestartLaw ==
  ( /\ trail = <<"stop", "setAnimation", "update">>
    /\ model # NullObject
    /\ currentAnimation \in AnimationKeys \ {"earthquake"} )
  => model = Fresh(currentAnimation, initialState)

\* C3: after stop(), in any state, the elapsed time is 0 and no animation
\* is current.
C3_StopResetsTimeAndAnimation ==
  lastCall.op = "stop" => (time = 0 /\ currentAnimation = NULL)

\* C4: with a model attached, right after stop() the model's position,
\* rotation and scale equal the captured rest pose.
C4_StopRestoresRestPose ==
  (lastCall.op = "stop" /\ model # NullObject)
  => /\ model.position = initialState.position
     /\ model.rotation = initialState.rotation
     /\ model.scale = initialState.scale

\* C4 witness: stop() was called on an animator with a model whose scale
\* differs along the axes.
C4_Witness ==
  /\ lastCall.op = "stop"
  /\ model # NullObject
  /\ model.scale.x # model.scale.y
  /\ speed = 2

\* C5: after update() has evaluated animation id, every component id does
\* not assign equals its value in the rest pose.
C5_UnwrittenComponentsAtRest ==
  ( /\ lastCall.op = "update"
    /\ model # NullObject
    /\ isPlaying
    /\ currentAnimation \in AnimationKeys )
  => \A c \in Components \ Writes[currentAnimation] :
        model[c[1]][c[2]] = initialState[c[1]][c[2]]

\* C6: the current animation is always none or a key of the registry.
C6_CurrentAnimationInRegistry ==
  currentAnimation \in AnimationKeys \cup {NULL}

\* C7: setAnimation with a prompt the resolver cannot match returns false
\* and changes none of the current animation, the elapsed time, the speed,
\* isPlaying and the model's transform.
C7_UnknownPromptChangesNothing ==
  [][\A s \in UIPrompts :
       (Parsed[s] = NULL /\ SetAnimation(s))
       => /\ lastCall' = CallWith("setAnimation", s, FALSE)
          /\ UNCHANGED <<currentAnimation, time, speed, isPlaying, model>>
    ]_vars

\* C7 witness: setAnimation returned false while an animation was running
\* on a model, part way through.
C7_Witness ==
  /\ lastCall.op = "setAnimation"
  /\ lastCall.ret = FALSE
  /\ model # NullObject
  /\ currentAnimation \in AnimationKeys
  /\ isPlaying
  /\ time > 0

\* The prompt of the parsePrompt call, lower-cased and trimmed.
Typed == trim(toLowerCase(lastCall.arg))

Returned == lastCall.op = "parsePrompt" /\ lastCall.ret # "<pending>"

\* The animations each of the four stages finds for a lower-cased, trimmed
\* prompt.
StageHits(lp) ==
  << {id \in AnimationKeys : Text[id] = lp},
     {aliases[i][2] : i \in {j \in 1..Len(aliases) : Text[aliases[j][1]] = lp}},
     {aliases[i][2] :
        i \in {j \in 1..Len(aliases) : includes(lp, Text[aliases[j][1]])}},
     {id \in AnimationKeys : includes(lp, Text[id])} >>

\* C8: parsePrompt returns a hit of the first of the four stages (exact
\* id, exact alias, alias contained, id contained) that has one, and none
\* when no stage has one.
C8_FirstMatchingStageWins ==
  Returned =>
    LET hits == StageHits(Typed)
        matching == {n \in 1..4 : hits[n] # {}}
    IN  IF matching = {} THEN lastCall.ret = NULL
        ELSE lastCall.ret \in hits[CHOOSE n \in matching :
                                     \A k \in matching : n <= k]

\* C9: when no exact stage matches, the earliest registered alias phrase
\* contained in the prompt decides, and with no alias phrase contained the
\* earliest registered id contained in it does.
C9_EarliestRegisteredPhraseWins ==
  Returned =>
    LET lp == Typed
        exact == \E k \in AnimationKeys \cup AliasKeys \cup ObjectPrototype :
                    Text[k] = lp
        inAliases == {i \in 1..Len(aliases) :
                        includes(lp, Text[aliases[i][1]])}
        inIds == {i \in 1..Len(animations) : includes(lp, Text[animations[i]])}
    IN  /\ (~exact /\ inAliases # {})
           => \A i \in inAliases :
                 (\A j \in inAliases : i <= j) => lastCall.ret = aliases[i][2]
        /\ (~exact /\ inAliases = {} /\ inIds # {})
           => \A i \in inIds :
                 (\A j \in inIds : i <= j) => lastCall.ret = animations[i]

\* C9 witness: the prompt contains two alias phrases of different
\* animations, and the one registered first is the longer one and comes
\* second in the prompt.
C9_Witness ==
  /\ Returned
  /\ lastCall.arg = Join(<<"jog", "twirl">>)
  /\ lastCall.ret = "spin"

\* C10: parsePrompt gives the same result for a prompt, for the prompt
\* lower-cased and trimmed, and for the prompt in capitals or with white
\* space around it.
C10_CaseAndWhiteSpaceInsensitive ==
  Returned =>
    /\ parsePrompt(Typed) = lastCall.ret
    /\ \A q \in Styled(lastCall.arg) : parsePrompt(q) = lastCall.ret

\* C10 witness: a prompt in capitals with white space around it resolved
\* to an animation.
C10_Witness ==
  /\ Returned
  /\ lastCall.arg # Typed
  /\ Len(lastCall.arg) > Len(Typed)
  /\ lastCall.ret \in AnimationKeys

\* C11: play() called while the animator is already playing, or while it is
\* stopped with no animation set, changes no field of the playback state.
C11_PlayIsNoOpWhenPlayingOrStopped ==
  [][ (Play /\ (isPlaying \/ currentAnimation = NULL))
      => UNCHANGED <<model, currentAnimation, speed, isPlaying, time,
                     initialState>> ]_vars

\* C12: an update made while the animator is paused changes neither the
\* elapsed time nor the model transform, however many are made; play()
\* changes neither; and the first update(dt) after pause(), updates, play()
\* gives elapsed time = the frozen value + dt * speed.
C12_PauseResumeContinuity ==
  [][ /\ (lastCall'.op = "update" /\ ~isPlaying)
           => (time' = time /\ model' = model)
      /\ lastCall'.op = "play" => (time' = time /\ model' = model)
      /\ ( /\ trail' = <<"pause", "update", "play", "update">>
           /\ model # NullObject
           /\ currentAnimation # NULL )
           => time' = time + lastCall'.arg * speed ]_vars

\* C12 witness: an animation that had run was paused, updated with a
\* positive frame time, resumed, and updated again: it went on from the
\* frozen time.
C12_Witness ==
  /\ trail = <<"pause", "update", "play", "update">>
  /\ model # NullObject
  /\ currentAnimation \in AnimationKeys
  /\ lastCall.arg > 0
  /\ time > lastCall.arg * speed

\* C13: update(dt) changes neither the elapsed time nor the model
\* transform, and returns without an error, whenever no model is attached,
\* or no animation is set, or the animator is not playing.
C13_UpdateIsNoOpUnlessAnimating ==
  [][ ( /\ lastCall'.op = "update"
        /\ (model = NullObject \/ currentAnimation = NULL \/ ~isPlaying) )
      => /\ time' = time
         /\ model' = model
         /\ lastCall'.ret = undefined ]_vars

\* C13 witness: update was called with a positive frame time while an
\* animation was set and playing but no model was attached.
C13_Witness ==
  /\ lastCall.op = "update"
  /\ lastCall.arg > 0
  /\ model = NullObject
  /\ currentAnimation \in AnimationKeys
  /\ isPlaying

\* C14: while playing with an animation and a model, update(dt) adds
\* exactly dt * speed to the elapsed time; setSpeed(s) sets the speed and
\* leaves the elapsed time alone.  So setSpeed(2); update(1) and
\* setSpeed(1); update(2) advance the time by the same amount.
C14_UpdateAddsDeltaTimesSpeed ==
  [][ /\ ( /\ lastCall'.op = "update"
           /\ model # NullObject
           /\ currentAnimation # NULL
           /\ isPlaying )
         => /\ time' = time + lastCall'.arg * speed
            /\ speed' = speed
      /\ lastCall'.op = "setSpeed"
         => (time' = time /\ \E s \in Speeds : SetSpeed(s)) ]_vars

\* C14 witness: at speed 2, update(1) took the elapsed time from 0 to 2.
C14_Witness ==
  /\ lastCall.op = "update"
  /\ lastCall.arg = 1
  /\ speed = 2
  /\ time = 2
  /\ isPlaying
  /\ model # NullObject
  /\ currentAnimation \in AnimationKeys

\* C14, the other order: at speed 1, update(2) took the elapsed time from
\* 0 to 2 as well.
C14_WitnessOtherOrder ==
  /\ lastCall.op = "update"
  /\ lastCall.arg = 2
  /\ speed = 1
  /\ time = 2
  /\ isPlaying
  /\ model # NullObject
  /\ currentAnimation \in AnimationKeys

\* C15: after every setAnimation call that returned true the elapsed time
\* is 0 and the current animation is what parsePrompt returns for the
\* prompt, also when that is the animation that was current before.
C15_SetAnimationRestartsResolved ==
  [][ (lastCall'.op = "setAnimation" /\ lastCall'.ret = TRUE)
      => /\ time' = 0
         /\ currentAnimation' = Parsed[lastCall'.arg] ]_vars

\* C15 witness: rotate had turned the model when a prompt resolving to
\* rotate again was accepted; the time is back at 0.
C15_Witness ==
  /\ lastCall.op = "setAnimation"
  /\ lastCall.ret = TRUE
  /\ Parsed[lastCall.arg] = "rotate"
  /\ model # NullObject
  /\ model.rotation.y # initialState.rotation.y
  /\ model.position = initialState.position
  /\ model.scale = initialState.scale
  /\ time = 0

\* C16: on a newly attached model, after setAnimation(id) and update(0),
\* every component id does not assign equals the rest pose; and for pulse
\* the whole transform equals the rest pose, whatever the rest scale.
C16_FreshEvaluationAtZeroIsRest ==
  ( /\ trail = <<"constructor", "setModel", "setAnimation", "update">>
    /\ currentAnimation \in AnimationKeys )
  => /\ \A c \in Components \ Writes[currentAnimation] :
          model[c[1]][c[2]] = initialState[c[1]][c[2]]
     /\ currentAnimation = "pulse" => model = initialState

\* C17: for every animation but earthquake, an update(0) that follows an
\* update while playing evaluates the same elapsed time against the same
\* rest pose again, and leaves the model transform as it was.
C17_EvaluationIsIdempotent ==
  [][ ( /\ lastCall.op = "update"
        /\ lastCall'.op = "update"
        /\ lastCall'.arg = 0
        /\ model # NullObject
        /\ isPlaying
        /\ currentAnimation \in AnimationKeys \ {"earthquake"} )
      => model' = model ]_vars

\* C17 witness: an animation that had moved the model off its rest pose
\* was evaluated again by update(0).
C17_Witness ==
  /\ lastCall.op = "update"
  /\ lastCall.arg = 0
  /\ model # NullObject
  /\ isPlaying
  /\ currentAnimation \in AnimationKeys \ {"earthquake"}
  /\ time > 0
  /\ model # initialState

\* C18: the rest pose changes only in a setModel call that attaches a
\* model, and after such a call it is that model's transform; update,
\* setAnimation, setSpeed, play, pause, stop and setModel(null) leave it
\* as it is, also while the model's transform moves.
C18_RestPoseOnlyReplacedBySetModel ==
  [][ /\ initialState' # initialState
         => (lastCall'.op = "setModel" /\ model' # NullObject)
      /\ (lastCall'.op = "setModel" /\ model' # NullObject)
         => (model' \in Models /\ initialState' = model') ]_vars

\* C18 witness: the model with the uneven scale was attached and an update
\* has moved it away from its rest pose, while the rest pose is still the
\* transform the model had when it was attached.
C18_Witness ==
  /\ lastCall.op = "update"
  /\ model # NullObject
  /\ initialState \in Models
  /\ initialState.scale.x # initialState.scale.y
  /\ model # initialState

\* C19: whenever no model is attached the animator holds no rest pose.
C19_NoRestPoseWithoutModel ==
  model = NullObject => initialState = NullObject

\* The components the rows of the effects table name, row by row.
TableRow ==
  LET position == {"position"} \X {"x", "y", "z"}
      scale    == {"scale"} \X {"x", "y", "z"}
  IN  "rotate" :> {<<"rotation", "y">>} @@
      "bounce" :> {<<"position", "y">>} @@
      "pulse" :> scale @@
      "jump" :> {<<"position", "y">>} \cup scale @@
      "dance" :> {<<"position", "y">>, <<"rotation", "y">>,
                  <<"rotation", "z">>} \cup scale @@
      "earthquake" :> position @@
      "orbit" :> {<<"position", "x">>, <<"position", "z">>,
                  <<"rotation", "y">>} @@
      "spiral" :> position \cup {<<"rotation", "y">>} @@
      "tornado" :> position \cup {<<"rotation", "y">>}

\* The step leaves every component outside written as it was.
Keeps(written) ==
  \A c \in Components \ written : model'[c[1]][c[2]] = model[c[1]][c[2]]

\* C20: an update changes only the components the table row of its
\* animation names: rotate only rotation.y, bounce only position.y, pulse
\* only the scale, earthquake only the position, and so on for the other
\* rows; for an animation without a row, only the components its function
\* assigns.
C20_UpdateWritesOnlyItsRow ==
  [][ ( /\ lastCall'.op = "update"
        /\ model # NullObject
        /\ currentAnimation \in AnimationKeys )
      => /\ currentAnimation \in DOMAIN TableRow
              => Keeps(TableRow[currentAnimation])
         /\ Keeps(Writes[currentAnimation]) ]_vars

\* C20 witness: an update under earthquake has shifted the model while its
\* rotation and scale are those of the rest pose.
C20_Witness ==
  /\ lastCall.op = "update"
  /\ currentAnimation = "earthquake"
  /\ model # NullObject
  /\ isPlaying
  /\ model.position # initialState.position
  /\ model.rotation = initialState.rotation
  /\ model.scale = initialState.scale

\* C21: stop() with a model attached leaves the model at its rest pose at
\* once, and while no animation is set update, play, pause and setSpeed
\* leave it there: after stop(), play() and an update with a positive
\* frame time the model is still at its rest pose.
C21_StopIsImmediateAndLasting ==
  [][ /\ (lastCall'.op = "stop" /\ model' # NullObject)
           => model' = initialState'
      /\ ( /\ currentAnimation = NULL
           /\ model # NullObject
           /\ model = initialState
           /\ lastCall'.op \in {"update", "play", "pause", "setSpeed"} )
           => /\ model' = model
              /\ initialState' = initialState
              /\ currentAnimation' = NULL
      /\ (trail' = <<"stop", "play", "update">> /\ model' # NullObject)
           => model' = initialState' ]_vars

\* C21 witness: stop(), play() and an update with a positive frame time
\* were called with a model attached; the animator is playing and no
\* animation is set.
C21_Witness ==
  /\ trail = <<"stop", "play", "update">>
  /\ lastCall.arg > 0
  /\ model # NullObject
  /\ isPlaying
  /\ currentAnimation = NULL

\* The MIME types that are WebM.
WebM == {"video/webm;codecs=vp9", "video/webm;codecs=vp8", "video/webm"}

\* C23: every clip that is downloaded under a name ending in .webm has a
\* blob of a WebM type, whatever MIME types the browser supports.
C23_EveryClipIsWebM ==
  \A i \in 1..Len(browser.log) :
     (browser.log[i].ev = "download" /\ downloadExtension = "webm")
     => browser.log[i].type \in WebM

\* C24: a recording that is running is stopped by a setTimeout callback
\* only at the time its own start() fixed, start time + the duration
\* configured then, so never by the timer of an earlier recording that is
\* due before; setDuration leaves the pending timers alone.
C24_AutoStopBelongsToItsRecording ==
  [][ /\ ( /\ lastCall'.op = "setTimeout"
           /\ recorder.mediaRecorder # NullObject
           /\ recorder.mediaRecorder.state = "recording"
           /\ recorder'.mediaRecorder.state = "inactive" )
         => [due |-> browser.now, rec |-> recorder.mediaRecorder.id]
              \in browser.timeouts
      /\ lastCall'.op = "setDuration"
         => browser'.timeouts = browser.timeouts ]_vars

\* The places in the log of the events ev of recording rec.
Logged(ev, rec) ==
  {i \in 1..Len(browser.log) :
     browser.log[i].ev = ev /\ browser.log[i].rec = rec}

\* C25: every recording a start() has begun gets exactly one download and
\* exactly one onStop callback in the end, never more, and they come after
\* its onStart; while no recording is running no setInterval timer is
\* left to call onProgress.
C25_OneDownloadAndOneOnStop ==
  /\ [](\A n \in 1..browser.recordings :
          /\ Cardinality(Logged("onStart", n)) = 1
          /\ Cardinality(Logged("download", n)) <= 1
          /\ Cardinality(Logged("onStop", n)) <= 1
          /\ \A i \in Logged("download", n) \cup Logged("onStop", n) :
               \A j \in Logged("onStart", n) : j < i)
  /\ [](~recorder.isRecording => browser.intervals = {})
  /\ \A n \in 1..MaxRecordings :
       (browser.recordings >= n)
         ~> ( /\ Cardinality(Logged("download", n)) = 1
              /\ Cardinality(Logged("onStop", n)) = 1
              /\ (browser.recordings = n => ~recorder.isRecording) )

\* C25 witness: two recordings were made; each has its download and its
\* onStop in the log, and none is running.
C25_Witness ==
  /\ browser.recordings = 2
  /\ ~recorder.isRecording
  /\ Logged("download", 1) # {}
  /\ Logged("onStop", 2) # {}

\* C26: start() called while isRecording is true returns false and leaves
\* the Recorder's fields (media recorder, chunks, isRecording) and the
\* timers as they are; isRecording turns false only in the handler of the
\* stop event; so at most one recording is under way at any time.
C26_AtMostOneRecording ==
  [][ /\ (lastCall'.op = "start" /\ recorder.isRecording)
         => /\ lastCall'.ret = FALSE
            /\ recorder' = recorder
            /\ browser' = browser
      /\ (lastCall'.op = "start" /\ lastCall'.ret = TRUE)
         => (~recorder.isRecording /\ recorder'.isRecording)
      /\ (recorder.isRecording /\ ~recorder'.isRecording)
         => /\ lastCall'.op = "onstop"
            /\ browser.tasks # << >>
            /\ Head(browser.tasks).id = recorder.mediaRecorder.id
      /\ LET ended == {i \in 1..Len(browser'.log) :
                         browser'.log[i].ev = "onStop"}
         IN  browser'.recordings - Cardinality(ended)
               = IF recorder'.isRecording THEN 1 ELSE 0 ]_vars

\* C26 witness: start() was called during a recording that had collected
\* data, and returned false.
C26_Witness ==
  /\ lastCall.op = "start"
  /\ lastCall.ret = FALSE
  /\ recorder.isRecording
  /\ recorder.chunks > 0
  /\ recorder.mediaRecorder.state = "recording"

(***************************************************************************)
(* The App and its scene                                                   *)
(***************************************************************************)

\* The formats the README's feature list names for upload.
UploadFormats ==
  supportedFormats \o << <<"f", "b", "x">> >>

\* C22: a file whose extension, in any letter case, is GLB, GLTF, OBJ or
\* FBX is accepted by loadFile and handed to a loader: the call does not
\* end with the "Unsupported format" alert, and the load is in flight
\* after it.
C22_ListedFormatsAreAccepted ==
  [][ ( /\ lastCall'.op = "loadFile"
        /\ \E file \in Files :
              /\ lastCall'.arg = file.name
              /\ \E i \in 1..Len(UploadFormats) :
                    UploadFormats[i] = toLowerCase(lastPart(file.name))
        /\ lastCall'.ret # "Failed to load model" )
      => /\ lastCall'.ret = "loading"
         /\ \E l \in app'.loading :
               l.file.name = lastCall'.arg /\ l \notin app.loading ]_vars

\* The largest dimension of the box of the object o in the scene.
LargestDimension(o) ==
  LET size == getSize(Box3(o)) IN Max(size.x, Max(size.y, size.z))

\* C27: after addModel(m) returns, m's largest bounding-box dimension is
\* 2 units and its lowest point is at y = 0 (every model shown got there
\* by addModel, the sample primitives by two calls of it), and a click on
\* a sample button, which applies addModel twice to its primitive, leaves
\* the primitive with the scale and position one call gives it.
C27_AddModelNormalises ==
  /\ [](sceneManager.currentModel # NullObject =>
          LET m == objects[sceneManager.currentModel.ref]
          IN LargestDimension(m) = 2000 /\ Box3(m).min.y = 0)
  /\ [][ lastCall'.op = "onclick" =>
           LET heap == Append(objects, Primitive(lastCall'.arg))
               r == Ref(Len(heap))
               once == addModel(heap, sceneManager, r).objects[r.ref]
           IN /\ sceneManager'.currentModel = r
              /\ objects'[r.ref].scale = once.scale
              /\ objects'[r.ref].position = once.position ]_vars

\* C28: the model currently shown in the scene has never had its geometry
\* or materials disposed, and a step disposes only a model that is not the
\* current model after it.
C28_ShownModelIsNeverDisposed ==
  /\ [](sceneManager.currentModel # NullObject =>
          ~objects[sceneManager.currentModel.ref].disposed)
  /\ [][ \A n \in 1..Len(objects) :
           (~objects[n].disposed /\ objects'[n].disposed)
              => sceneManager'.currentModel # Ref(n) ]_vars

\* The log entries from position n on.
LogAfter(n) == n + 1 .. Len(app.log)

Requests == {"loadFile", "sample", "removeModel"}

\* The load with this request number has completed at a position of ks.
LoadedAt(request, ks) ==
  \E k \in ks : app.log[k].ev = "loaded" /\ app.log[k].request = request

\* C29: when the load of file A is requested and then, while A is still
\* loading, the load of file B, and nothing is requested after B, then once
\* both loads have completed - in either order - the model shown in the
\* scene and attached to the animator is B's.
C29_LastRequestedLoadWins ==
  \A i, j \in 1..Len(app.log) :
     ( /\ i < j
       /\ app.log[i].ev = "loadFile"
       /\ app.log[j].ev = "loadFile"
       /\ \A k \in LogAfter(j) : app.log[k].ev \notin Requests
       /\ LoadedAt(app.log[i].request, LogAfter(j))
       /\ LoadedAt(app.log[j].request, LogAfter(j)) )
     => /\ sceneManager.currentModel # NullObject
        /\ objects[sceneManager.currentModel.ref].name = app.log[j].name
        /\ model = sceneManager.currentModel

\* C30: after removeModel, as long as no load or sample is requested, the
\* scene and the animator have no model, also once a load that was in
\* flight at the removal has completed; a model that is shown comes from a
\* load or sample requested after the most recent removal.
C30_RemovalOutlivesLoadsInFlight ==
  \A r \in 1..Len(app.log) :
     ( /\ app.log[r].ev = "removeModel"
       /\ \A k \in LogAfter(r) : app.log[k].ev # "removeModel" )
     => IF \A k \in LogAfter(r) : app.log[k].ev \notin Requests
          THEN /\ sceneManager.currentModel = NullObject
               /\ sceneManager.scene = {}
               /\ model = NullObject
               /\ ~app.modelLoaded
          ELSE sceneManager.currentModel # NullObject =>
                 \E k \in LogAfter(r) :
                    /\ app.log[k].ev \in Requests
                    /\ app.log[k].name =
                          objects[sceneManager.currentModel.ref].name

\* C31: between event handlers, App.modelLoaded is true exactly when the
\* animator has a model and exactly when the scene manager has a current
\* model; the animator's model and the scene's current model are the same
\* object (or both null), and the scene holds that model and no other.
C31_ModelLoadedAgrees ==
  /\ app.modelLoaded <=> model # NullObject
  /\ app.modelLoaded <=> sceneManager.currentModel # NullObject
  /\ model = sceneManager.currentModel
  /\ sceneManager.scene =
       IF app.modelLoaded THEN {sceneManager.currentModel} ELSE {}

\* A load has failed, the model was removed, and a load that was in flight
\* then has put its model into the scene and the animator.
C31_Witness ==
  /\ \E k \in 1..Len(app.log) : app.log[k].ev = "failed"
  /\ \E r \in 1..Len(app.log) :
        /\ app.log[r].ev = "removeModel"
        /\ \E k \in LogAfter(r) : app.log[k].ev = "loaded"
  /\ app.modelLoaded
  /\ model = sceneManager.currentModel
  /\ model # NullObject

\* A sample click has replaced a loaded model, and the removal after it
\* has left the app, the animator and the scene without a model.
C31_WitnessRemoved ==
  /\ Len(app.log) = 4
  /\ app.log[1].ev = "loadFile"
  /\ app.log[2].ev = "loaded"
  /\ app.log[3].ev = "sample"
  /\ app.log[4].ev = "removeModel"
  /\ ~app.modelLoaded
  /\ model = NullObject
  /\ sceneManager.currentModel = NullObject
  /\ Len(objects) = 2

====
